---- MODULE Spec2Model ----
(***************************************************************************)
(* Model of api/main.py: the multi-threaded endpoint process_parallel, its *)
(* worker process_task_threaded, the module-level counter guarded by       *)
(* data_lock, the admission semaphore operation_semaphore, the gauge       *)
(* ACTIVE_THREADS and the SharedDataStore singleton shared_store; the       *)
(* sequential endpoint process_single and the cooperative endpoint         *)
(* process_async on the server's event loop; the validation of the items   *)
(* parameter in front of the three endpoints.                              *)
(*                                                                         *)
(* Every Python statement that touches shared state is one step of the     *)
(* thread that executes it.  `shared_counter += 1` and                     *)
(* `self.operation_count += 1` are a load followed by a store, as in the   *)
(* bytecode; list.append, Semaphore acquire/release, Lock acquire/release  *)
(* and Gauge.inc/dec are single steps.                                     *)
(***************************************************************************)
EXTENDS Integers, Sequences, FiniteSets, TLC

\* ---------------------------------------------------------------- bounds
\* Largest item count a modelled request carries (the endpoint admits 1..20).
MaxItems == 3
\* Number of process_parallel requests in a behaviour.
MaxRuns == 2
\* Largest number of tasks of all the requests of a behaviour together.
MaxTasks == 3

\* ------------------------------------------------------ program constants
\* max_concurrent_operations = 5 in the source; the model runs the same code
\* with a pool of this size so that more tasks than tokens fit in the bounds.
max_concurrent_operations == 2

Runs == 1..MaxRuns
TaskIds == 0..(MaxItems - 1)
\* A worker thread is named by its request and its task id.
Threads == Runs \X TaskIds
\* Owner value of a lock nobody holds.
NoOwner == <<0, 0>>
\* The thread of request r that runs the handler itself (builds the report).
Handler(r) == <<r, MaxItems>>

VARIABLES
    shared_counter,    \* module global shared_counter
    data_lock,         \* owner of data_lock, or NoOwner
    sem,               \* operation_semaphore._value: tokens available
    ACTIVE_THREADS,    \* value of the gauge
    data,              \* shared_store.data: sequence of records
    operation_count,   \* shared_store.operation_count
    store_lock,        \* owner of shared_store.lock, or NoOwner
    pc,                \* position of each worker thread
    tmp,               \* the value each worker loaded for the `+= 1` in progress
    cpu_result,        \* each worker's local cpu_result: "none" until computed
    current_count,     \* each worker's local current_count
    failed,            \* whether the worker's workload raised
    rpc,               \* position of each request handler
    items,             \* the request's items parameter
    idx,               \* the handler's loop position (launch loop, join loop)
    results,           \* the request's results list
    report,            \* the returned report of each request
    counter_before,    \* history: shared_counter when the request started
    len_before,        \* history: len(shared_store.data) when the request started
    concurrent,        \* history: another request was in flight during this one
    spc,               \* position of each process_single handler
    s_items,           \* process_single: the items parameter
    s_i,               \* process_single: the loop variable i
    s_results,         \* process_single: the results list
    apc,               \* position of each process_async handler
    a_items,           \* process_async: the items parameter
    a_results,         \* process_async: results, what gather returned
    tpc,               \* position of each async_task coroutine
    gathered,          \* state of the future gather returned to the handler
    ready,             \* the event loop's queue of callbacks ready to run
    completed,         \* history: async tasks in the order they returned
    rejected           \* endpoints that have answered a request with 422

vars == <<shared_counter, data_lock, sem, ACTIVE_THREADS, data, operation_count,
          store_lock, pc, tmp, cpu_result, current_count, failed, rpc, items,
          idx, results, report, counter_before, len_before, concurrent,
          spc, s_items, s_i, s_results, apc, a_items, a_results, tpc, gathered,
          ready, completed, rejected>>

shared == <<shared_counter, data_lock, sem, ACTIVE_THREADS, data,
            operation_count, store_lock>>
history == <<counter_before, len_before, concurrent>>
\* process_single's state, process_async's state and the event loop's
singleVars == <<spc, s_items, s_i, s_results>>
asyncVars == <<apc, a_items, a_results, tpc, gathered, ready, completed>>
loopVars == <<singleVars, asyncVars, rejected>>
handlerVars == <<rpc, items, idx, results, report, history, loopVars>>
locals == <<tmp, cpu_result, current_count, failed>>

NoReport == [results |-> <<>>, shared_counter |-> -1, total_items |-> -1,
             operations |-> -1]

Init ==
    /\ shared_counter = 0
    /\ data_lock = NoOwner
    /\ sem = max_concurrent_operations
    /\ ACTIVE_THREADS = 0
    /\ data = <<>>
    /\ operation_count = 0
    /\ store_lock = NoOwner
    /\ pc = [t \in Threads |-> "unstarted"]
    /\ tmp = [t \in Threads |-> 0]
    /\ cpu_result = [t \in Threads |-> "none"]
    /\ current_count = [t \in Threads |-> 0]
    /\ failed = [t \in Threads |-> FALSE]
    /\ rpc = [r \in Runs |-> "idle"]
    /\ items = [r \in Runs |-> 0]
    /\ idx = [r \in Runs |-> 0]
    /\ results = [r \in Runs |-> <<>>]
    /\ report = [r \in Runs |-> NoReport]
    /\ counter_before = [r \in Runs |-> 0]
    /\ len_before = [r \in Runs |-> 0]
    /\ concurrent = [r \in Runs |-> FALSE]
    /\ spc = [q \in Runs |-> "idle"]
    /\ s_items = [q \in Runs |-> 0]
    /\ s_i = [q \in Runs |-> 0]
    /\ s_results = [q \in Runs |-> <<>>]
    /\ apc = [a \in Runs |-> "idle"]
    /\ a_items = [a \in Runs |-> 0]
    /\ a_results = [a \in Runs |-> <<>>]
    /\ tpc = [c \in Threads |-> "none"]
    /\ gathered = [a \in Runs |-> "none"]
    /\ ready = <<>>
    /\ completed = [a \in Runs |-> <<>>]
    /\ rejected = {}

\* ------------------------------------------------- process_task_threaded
Goto(t, from, to) == pc[t] = from /\ pc' = [pc EXCEPT ![t] = to]

\* A semaphore whose acquire never blocks.
AcquireSemaphore_NoBlock(t) ==
    /\ Goto(t, "acquire", "gauge_inc")
    /\ sem' = sem - 1
    /\ UNCHANGED <<shared_counter, data_lock, ACTIVE_THREADS, data,
                   operation_count, store_lock, locals, handlerVars>>

\* `with operation_semaphore:` blocks until a token is available and takes it.
AcquireSemaphore(t) ==
    /\ sem > 0
    /\ Goto(t, "acquire", "gauge_inc")
    /\ sem' = sem - 1
    /\ UNCHANGED <<shared_counter, data_lock, ACTIVE_THREADS, data,
                   operation_count, store_lock, locals, handlerVars>>

\* ACTIVE_THREADS.inc()
GaugeInc(t) ==
    /\ Goto(t, "gauge_inc", "work")
    /\ ACTIVE_THREADS' = ACTIVE_THREADS + 1
    /\ UNCHANGED <<shared_counter, data_lock, sem, data, operation_count,
                   store_lock, locals, handlerVars>>

\* A workload whose failure is swallowed: the task goes on to the increment
\* and the append.
Workload_FailureSwallowed(t) ==
    /\ pc[t] = "work"
    /\ \E raised \in BOOLEAN :
        /\ failed' = [failed EXCEPT ![t] = raised]
        /\ cpu_result' = [cpu_result EXCEPT ![t] = IF raised THEN @ ELSE "value"]
        /\ pc' = [pc EXCEPT ![t] = "lock_counter"]
    /\ UNCHANGED <<shared, tmp, current_count, handlerVars>>

\* cpu_intensive_task(500000); io_simulation(0.05): touches no shared state;
\* it either returns or raises.
Workload(t) ==
    /\ pc[t] = "work"
    /\ \E raised \in BOOLEAN :
        /\ failed' = [failed EXCEPT ![t] = raised]
        /\ cpu_result' = [cpu_result EXCEPT ![t] = IF raised THEN @ ELSE "value"]
        /\ pc' = [pc EXCEPT ![t] = IF raised THEN "finally" ELSE "lock_counter"]
    /\ UNCHANGED <<shared, tmp, current_count, handlerVars>>

\* The increment without mutual exclusion: the block is entered whoever holds
\* the lock.
AcquireDataLock_NoMutex(t) ==
    /\ Goto(t, "lock_counter", "load_counter")
    /\ data_lock' = t
    /\ UNCHANGED <<shared_counter, sem, ACTIVE_THREADS, data, operation_count,
                   store_lock, locals, handlerVars>>

\* `with data_lock:` entry
AcquireDataLock(t) ==
    /\ data_lock = NoOwner
    /\ Goto(t, "lock_counter", "load_counter")
    /\ data_lock' = t
    /\ UNCHANGED <<shared_counter, sem, ACTIVE_THREADS, data, operation_count,
                   store_lock, locals, handlerVars>>

\* shared_counter += 1, first half: load the global
LoadCounter(t) ==
    /\ Goto(t, "load_counter", "store_counter")
    /\ tmp' = [tmp EXCEPT ![t] = shared_counter]
    /\ UNCHANGED <<shared, cpu_result, current_count, failed, handlerVars>>

\* shared_counter += 1, second half: store the sum
StoreCounter(t) ==
    /\ Goto(t, "store_counter", "read_counter")
    /\ shared_counter' = tmp[t] + 1
    /\ UNCHANGED <<data_lock, sem, ACTIVE_THREADS, data, operation_count,
                   store_lock, locals, handlerVars>>

\* current_count taken before the increment instead of after it.
ReadCounter_Stale(t) ==
    /\ Goto(t, "read_counter", "unlock_counter")
    /\ current_count' = [current_count EXCEPT ![t] = tmp[t]]
    /\ UNCHANGED <<shared, tmp, cpu_result, failed, handlerVars>>

\* current_count = shared_counter
ReadCounter(t) ==
    /\ Goto(t, "read_counter", "unlock_counter")
    /\ current_count' = [current_count EXCEPT ![t] = shared_counter]
    /\ UNCHANGED <<shared, tmp, cpu_result, failed, handlerVars>>

\* The block left by a path that never calls shared_store.add_data.
ReleaseDataLock_SkipStore(t) ==
    /\ Goto(t, "unlock_counter", "finally")
    /\ data_lock' = NoOwner
    /\ tmp' = [tmp EXCEPT ![t] = 0]
    /\ UNCHANGED <<shared_counter, sem, ACTIVE_THREADS, data, operation_count,
                   store_lock, cpu_result, current_count, failed, handlerVars>>

\* add_data called inside the `with data_lock:` block: the lock is kept.
ReleaseDataLock_Nested(t) ==
    /\ Goto(t, "unlock_counter", "lock_store")
    /\ tmp' = [tmp EXCEPT ![t] = 0]
    /\ UNCHANGED <<shared_counter, data_lock, sem, ACTIVE_THREADS, data,
                   operation_count, store_lock, cpu_result, current_count,
                   failed, handlerVars>>

\* `with data_lock:` exit
ReleaseDataLock(t) ==
    /\ Goto(t, "unlock_counter", "lock_store")
    /\ data_lock' = NoOwner
    /\ tmp' = [tmp EXCEPT ![t] = 0]
    /\ UNCHANGED <<shared_counter, sem, ACTIVE_THREADS, data, operation_count,
                   store_lock, cpu_result, current_count, failed, handlerVars>>

\* ------------------------------------------------ SharedDataStore.add_data
\* The record appended for task t: task_id and the thread's name (the timestamp
\* is not modelled).
Record(t) == [task_id |-> t[2], thread |-> t]

\* add_data without mutual exclusion.
AcquireStoreLock_NoMutex(t) ==
    /\ Goto(t, "lock_store", "append_data")
    /\ store_lock' = t
    /\ UNCHANGED <<shared_counter, data_lock, sem, ACTIVE_THREADS, data,
                   operation_count, locals, handlerVars>>

\* `with self.lock:` entry
AcquireStoreLock(t) ==
    /\ store_lock = NoOwner
    /\ Goto(t, "lock_store", "append_data")
    /\ store_lock' = t
    /\ UNCHANGED <<shared_counter, data_lock, sem, ACTIVE_THREADS, data,
                   operation_count, locals, handlerVars>>

\* The record written over the last slot instead of after it.
AppendData_Overwrite(t) ==
    /\ Goto(t, "append_data", "load_opcount")
    /\ data' = IF data = <<>> THEN <<Record(t)>>
               ELSE [data EXCEPT ![Len(data)] = Record(t)]
    /\ UNCHANGED <<shared_counter, data_lock, sem, ACTIVE_THREADS,
                   operation_count, store_lock, locals, handlerVars>>

\* The record put in front of the earlier ones.
AppendData_Prepend(t) ==
    /\ Goto(t, "append_data", "load_opcount")
    /\ data' = <<Record(t)>> \o data
    /\ UNCHANGED <<shared_counter, data_lock, sem, ACTIVE_THREADS,
                   operation_count, store_lock, locals, handlerVars>>

\* self.data.append(item)
AppendData(t) ==
    /\ Goto(t, "append_data", "load_opcount")
    /\ data' = Append(data, Record(t))
    /\ UNCHANGED <<shared_counter, data_lock, sem, ACTIVE_THREADS,
                   operation_count, store_lock, locals, handlerVars>>

\* self.operation_count += 1, first half
LoadOperationCount(t) ==
    /\ Goto(t, "load_opcount", "store_opcount")
    /\ tmp' = [tmp EXCEPT ![t] = operation_count]
    /\ UNCHANGED <<shared, cpu_result, current_count, failed, handlerVars>>

\* self.operation_count += 1, second half
StoreOperationCount(t) ==
    /\ Goto(t, "store_opcount", "unlock_store")
    /\ operation_count' = tmp[t] + 1
    /\ UNCHANGED <<shared_counter, data_lock, sem, ACTIVE_THREADS, data,
                   store_lock, locals, handlerVars>>

\* `with self.lock:` exit; add_data returns and the task's result dict is built
ReleaseStoreLock(t) ==
    /\ Goto(t, "unlock_store", "finally")
    /\ store_lock' = NoOwner
    /\ tmp' = [tmp EXCEPT ![t] = 0]
    /\ UNCHANGED <<shared_counter, data_lock, sem, ACTIVE_THREADS, data,
                   operation_count, cpu_result, current_count, failed,
                   handlerVars>>

\* A decrement that sits after the work instead of in the finally clause: the
\* exception skips it.
GaugeDec_SkippedByRaise(t) ==
    /\ Goto(t, "finally", "release")
    /\ ACTIVE_THREADS' = IF failed[t] THEN ACTIVE_THREADS ELSE ACTIVE_THREADS - 1
    /\ UNCHANGED <<shared_counter, data_lock, sem, data, operation_count,
                   store_lock, locals, handlerVars>>

\* finally: ACTIVE_THREADS.dec()
GaugeDec(t) ==
    /\ Goto(t, "finally", "release")
    /\ ACTIVE_THREADS' = ACTIVE_THREADS - 1
    /\ UNCHANGED <<shared_counter, data_lock, sem, data, operation_count,
                   store_lock, locals, handlerVars>>

\* A release that sits after the work instead of in a `with`/`finally`: the
\* exception skips it.
ReleaseSemaphore_SkippedByRaise(t) ==
    /\ Goto(t, "release", IF failed[t] THEN "dead" ELSE "append_result")
    /\ sem' = IF failed[t] THEN sem ELSE sem + 1
    /\ UNCHANGED <<shared_counter, data_lock, ACTIVE_THREADS, data,
                   operation_count, store_lock, locals, handlerVars>>

\* `with operation_semaphore:` exit.  A task whose workload raised leaves
\* process_task_threaded by the exception, which ends its thread.
ReleaseSemaphore(t) ==
    /\ Goto(t, "release", IF failed[t] THEN "dead" ELSE "append_result")
    /\ sem' = sem + 1
    /\ UNCHANGED <<shared_counter, data_lock, ACTIVE_THREADS, data,
                   operation_count, store_lock, locals, handlerVars>>

\* The result dict process_task_threaded returns.
TaskResult(t) == [task_id |-> t[2], result |-> cpu_result[t],
                  counter_value |-> current_count[t]]

\* The thread's target: results.append(process_task_threaded(tid)); the thread
\* ends.
AppendResult(t) ==
    /\ Goto(t, "append_result", "dead")
    /\ results' = [results EXCEPT ![t[1]] = Append(@, TaskResult(t))]
    /\ UNCHANGED <<shared, locals, rpc, items, idx, report, history, loopVars>>

\* -------------------------------------------------------- process_parallel
\* Number of tasks of the requests received so far (items is 0 for a request
\* that has not arrived).
RECURSIVE SumItems(_)
SumItems(r) == IF r = 0 THEN 0 ELSE items[r] + SumItems(r - 1)

\* Requests whose handler has started and not returned.
InFlight == {q \in Runs : rpc[q] \notin {"idle", "returned"}}

\* A counter that belongs to the request: every request starts it at 0.
StartRun_FreshCounter(r, n) ==
    /\ rpc[r] = "idle"
    /\ r > 1 => rpc[r - 1] # "idle"
    /\ SumItems(MaxRuns) + n <= MaxTasks
    /\ rpc' = [rpc EXCEPT ![r] = "launch"]
    /\ items' = [items EXCEPT ![r] = n]
    /\ idx' = [idx EXCEPT ![r] = 0]
    /\ results' = [results EXCEPT ![r] = <<>>]
    /\ counter_before' = [counter_before EXCEPT ![r] = 0]
    /\ len_before' = [len_before EXCEPT ![r] = Len(data)]
    /\ concurrent' = [q \in Runs |->
                        IF q = r THEN InFlight # {}
                        ELSE concurrent[q] \/ q \in InFlight]
    /\ shared_counter' = 0
    /\ UNCHANGED <<data_lock, sem, ACTIVE_THREADS, data, operation_count,
                   store_lock, pc, locals, report, loopVars>>

\* A request arrives with items = n (1 <= n, the Query bounds) and the handler
\* starts: threads = [], results = [].  Handlers of different requests may
\* overlap (one event loop per caller); requests are numbered in the order of
\* their arrival.
StartRun(r, n) ==
    /\ rpc[r] = "idle"
    /\ r > 1 => rpc[r - 1] # "idle"
    /\ SumItems(MaxRuns) + n <= MaxTasks
    /\ rpc' = [rpc EXCEPT ![r] = "launch"]
    /\ items' = [items EXCEPT ![r] = n]
    /\ idx' = [idx EXCEPT ![r] = 0]
    /\ results' = [results EXCEPT ![r] = <<>>]
    /\ counter_before' = [counter_before EXCEPT ![r] = shared_counter]
    /\ len_before' = [len_before EXCEPT ![r] = Len(data)]
    /\ concurrent' = [q \in Runs |->
                        IF q = r THEN InFlight # {}
                        ELSE concurrent[q] \/ q \in InFlight]
    /\ UNCHANGED <<shared, pc, locals, report, loopVars>>

\* One iteration of `for i in range(items)`: create the thread and start it.
Launch(r) ==
    /\ rpc[r] = "launch"
    /\ pc' = [pc EXCEPT ![<<r, idx[r]>>] = "acquire"]
    /\ IF idx[r] + 1 < items[r]
       THEN /\ idx' = [idx EXCEPT ![r] = @ + 1]
            /\ rpc' = rpc
       ELSE /\ idx' = [idx EXCEPT ![r] = 0]
            /\ rpc' = [rpc EXCEPT ![r] = "join"]
    /\ UNCHANGED <<shared, locals, items, results, report, history, loopVars>>

\* A join that re-raises the worker's exception: the first failed task ends the
\* loop and the remaining threads are not waited for.
Join_FailFast(r) ==
    /\ rpc[r] = "join"
    /\ pc[<<r, idx[r]>>] = "dead"
    /\ IF idx[r] + 1 < items[r] /\ ~failed[<<r, idx[r]>>]
       THEN /\ idx' = [idx EXCEPT ![r] = @ + 1]
            /\ rpc' = rpc
       ELSE /\ idx' = [idx EXCEPT ![r] = 0]
            /\ rpc' = [rpc EXCEPT ![r] = "read_counter"]
    /\ UNCHANGED <<shared, pc, locals, items, results, report, history, loopVars>>

\* A join that does not wait for its thread.
Join_NoWait(r) ==
    /\ rpc[r] = "join"
    /\ IF idx[r] + 1 < items[r]
       THEN /\ idx' = [idx EXCEPT ![r] = @ + 1]
            /\ rpc' = rpc
       ELSE /\ idx' = [idx EXCEPT ![r] = 0]
            /\ rpc' = [rpc EXCEPT ![r] = "read_counter"]
    /\ UNCHANGED <<shared, pc, locals, items, results, report, history, loopVars>>

\* One iteration of `for thread in threads: thread.join()`: returns once that
\* thread has ended.
Join(r) ==
    /\ rpc[r] = "join"
    /\ pc[<<r, idx[r]>>] = "dead"
    /\ IF idx[r] + 1 < items[r]
       THEN /\ idx' = [idx EXCEPT ![r] = @ + 1]
            /\ rpc' = rpc
       ELSE /\ idx' = [idx EXCEPT ![r] = 0]
            /\ rpc' = [rpc EXCEPT ![r] = "read_counter"]
    /\ UNCHANGED <<shared, pc, locals, items, results, report, history, loopVars>>

\* The report dict, "shared_counter": shared_counter
ReportReadCounter(r) ==
    /\ rpc[r] = "read_counter"
    /\ rpc' = [rpc EXCEPT ![r] = "get_stats"]
    /\ report' = [report EXCEPT ![r].shared_counter = shared_counter]
    /\ UNCHANGED <<shared, pc, locals, items, idx, results, history, loopVars>>

\* get_stats: `with self.lock:` entry
GetStatsAcquire(r) ==
    /\ store_lock = NoOwner
    /\ rpc[r] = "get_stats"
    /\ rpc' = [rpc EXCEPT ![r] = "stats_read"]
    /\ store_lock' = Handler(r)
    /\ UNCHANGED <<shared_counter, data_lock, sem, ACTIVE_THREADS, data,
                   operation_count, pc, locals, items, idx, results, report,
                   history, loopVars>>

\* get_stats: the dict of len(self.data) and self.operation_count
GetStatsRead(r) ==
    /\ rpc[r] = "stats_read"
    /\ rpc' = [rpc EXCEPT ![r] = "stats_unlock"]
    /\ report' = [report EXCEPT ![r].total_items = Len(data),
                                ![r].operations = operation_count]
    /\ UNCHANGED <<shared, pc, locals, items, idx, results, history, loopVars>>

\* get_stats: `with self.lock:` exit; process_parallel returns the report
GetStatsRelease(r) ==
    /\ rpc[r] = "stats_unlock"
    /\ rpc' = [rpc EXCEPT ![r] = "returned"]
    /\ store_lock' = NoOwner
    /\ report' = [report EXCEPT ![r].results = results[r]]
    /\ UNCHANGED <<shared_counter, data_lock, sem, ACTIVE_THREADS, data,
                   operation_count, pc, locals, items, idx, results,
                   history, loopVars>>

\* ------------------------------------------------------------ specification
Next ==
    \/ \E r \in Runs, n \in 1..MaxItems : StartRun(r, n)
    \/ \E r \in Runs : Launch(r)
    \/ \E r \in Runs : Join(r)
    \/ \E r \in Runs : ReportReadCounter(r)
    \/ \E r \in Runs : GetStatsAcquire(r)
    \/ \E r \in Runs : GetStatsRead(r)
    \/ \E r \in Runs : GetStatsRelease(r)
    \/ \E t \in Threads : AcquireSemaphore(t)
    \/ \E t \in Threads : GaugeInc(t)
    \/ \E t \in Threads : Workload(t)
    \/ \E t \in Threads : AcquireDataLock(t)
    \/ \E t \in Threads : LoadCounter(t)
    \/ \E t \in Threads : StoreCounter(t)
    \/ \E t \in Threads : ReadCounter(t)
    \/ \E t \in Threads : ReleaseDataLock(t)
    \/ \E t \in Threads : AcquireStoreLock(t)
    \/ \E t \in Threads : AppendData(t)
    \/ \E t \in Threads : LoadOperationCount(t)
    \/ \E t \in Threads : StoreOperationCount(t)
    \/ \E t \in Threads : ReleaseStoreLock(t)
    \/ \E t \in Threads : GaugeDec(t)
    \/ \E t \in Threads : ReleaseSemaphore(t)
    \/ \E t \in Threads : AppendResult(t)

Spec == Init /\ [][Next]_vars

\* ------------------------------------------------------ derived predicates
\* Positions between taking the admission token and giving it back.
HoldingPcs == {"gauge_inc", "work", "lock_counter", "load_counter",
               "store_counter", "read_counter", "unlock_counter", "lock_store",
               "append_data", "load_opcount", "store_opcount", "unlock_store",
               "finally", "release"}
TokenHolders == {t \in Threads : pc[t] \in HoldingPcs}
\* Worker threads that were started and have not ended.
Running == {t \in Threads : pc[t] \notin {"unstarted", "dead"}}
\* Tasks that ran to the end of process_task_threaded without raising.
Succeeded == {t \in Threads : pc[t] \in {"append_result", "dead"} /\ ~failed[t]}
\* Tasks whose workload raised and whose thread has ended.
FailedDead == {t \in Threads : pc[t] = "dead" /\ failed[t]}
\* Number of positions of sequence s that hold x.
Occurrences(s, x) == Cardinality({k \in 1..Len(s) : s[k] = x})
\* The (request, position) pairs of all per-task results appended so far.
ResultSlots == {<<r, k>> \in Runs \X (1..MaxItems) : k <= Len(results[r])}

\* ------------------------------------------------------------------ claims
\* C1: no lost updates on the shared counter. Once every started worker has
\* ended, shared_counter equals its initial value 0 plus the number of
\* increments performed, one per task that got through its workload, whatever
\* the number of requests and the interleaving of their workers.
C1_NoLostUpdates ==
    Running = {} => shared_counter = Cardinality(Succeeded)

\* C1 witness: two requests, one of them in flight during the other, have
\* returned and three increments have been performed.
C1_Witness ==
    /\ Running = {}
    /\ \A r \in Runs : rpc[r] = "returned"
    /\ \E r \in Runs : concurrent[r]
    /\ Cardinality(Succeeded) >= 3
    /\ shared_counter >= 3

\* C2: a task's counter_value is the counter right after its own increment
\* (the value it loaded plus one), the value it reports in its result is that
\* one, and no two results, of the same request or of different requests, carry
\* the same counter_value.
C2_OwnDistinctCounterValue ==
    /\ \A t \in Threads :
        pc[t] = "unlock_counter" => current_count[t] = tmp[t] + 1
    /\ \A s \in ResultSlots :
        results[s[1]][s[2]].counter_value
            = current_count[<<s[1], results[s[1]][s[2]].task_id>>]
    /\ \A s1, s2 \in ResultSlots :
        s1 # s2 => results[s1[1]][s1[2]].counter_value
                     # results[s2[1]][s2[2]].counter_value

\* C2 witness: two requests that overlapped have each collected a result while
\* a third task has just read its counter value.
C2_Witness ==
    /\ \A r \in Runs : concurrent[r] /\ results[r] # <<>>
    /\ \E t \in Threads : pc[t] = "unlock_counter" /\ current_count[t] >= 3

\* C3: never more than max_concurrent_operations tasks between acquiring the
\* admission token and releasing it, over all workers of all requests; the
\* semaphore's count is the number of tokens not held.
C3_AdmissionBound ==
    /\ Cardinality(TokenHolders) <= max_concurrent_operations
    /\ sem = max_concurrent_operations - Cardinality(TokenHolders)
    /\ sem >= 0

\* C3 witness: every token is held while another task is blocked on the
\* semaphore.
C3_Witness ==
    /\ Cardinality(TokenHolders) = max_concurrent_operations
    /\ sem = 0
    /\ \E t \in Threads : pc[t] = "acquire"

\* Positions of a task after its record went into shared_store.data.
AppendedPcs == {"load_opcount", "store_opcount", "unlock_store", "finally",
                "release", "append_result", "dead"}
Appended == {t \in Threads : pc[t] \in AppendedPcs /\ ~failed[t]}
\* The worker threads of request r.
TasksOf(r) == {t \in Threads : t[1] = r /\ t[2] < items[r]}
\* Requests whose join loop is over.
Joined == {r \in Runs : rpc[r] \in {"read_counter", "get_stats", "stats_read",
                                   "stats_unlock", "returned"}}
\* Requests whose get_stats call has read its two numbers.
StatsTaken == {r \in Runs : rpc[r] \in {"stats_unlock", "returned"}}

\* C4: the store's invariant. Whenever no thread is inside the store's
\* critical section len(data) equals operation_count, and every get_stats
\* result has total_items equal to operations, however it interleaves with
\* add_data calls.
C4_StoreInvariant ==
    /\ store_lock = NoOwner => Len(data) = operation_count
    /\ \A r \in StatsTaken : report[r].total_items = report[r].operations

\* C4 witness: get_stats has read the store while a worker of another request
\* is blocked in add_data on the store's lock, after an earlier append.
C4_Witness ==
    \E r \in Runs :
        /\ rpc[r] = "stats_unlock"
        /\ report[r].total_items >= 1
        /\ \E t \in Threads : t[1] # r /\ pc[t] = "lock_store"

\* C5: appends are linearized. In every state each record handed to add_data
\* whose append has run is in data exactly once, no other record is, and data
\* holds nothing else; so the final sequence is an ordering of the appended
\* records.
C5_AppendsLinearized ==
    /\ \A t \in Threads :
        Occurrences(data, Record(t)) = IF t \in Appended THEN 1 ELSE 0
    /\ Len(data) = Cardinality(Appended)

\* C5 witness: all workers have ended, three records are in, and two records
\* of one request sit in the opposite order of their task ids.
C5_Witness ==
    /\ Running = {}
    /\ Len(data) >= 3
    /\ \E j, k \in 1..Len(data) :
        /\ j < k
        /\ data[j].thread[1] = data[k].thread[1]
        /\ data[j].task_id > data[k].task_id

\* C6: the token comes back on every exit path. Once every started task has
\* ended, by returning or by raising, all max_concurrent_operations tokens
\* are available again.
C6_TokenReleasedOnEveryPath ==
    Running = {} => sem = max_concurrent_operations

\* C6 witness: all tasks have ended, one of them by raising and another by
\* returning, every request has returned, and the pool is full.
C6_Witness ==
    /\ Running = {}
    /\ FailedDead # {}
    /\ Succeeded # {}
    /\ \A r \in Runs : rpc[r] = "returned"
    /\ sem = max_concurrent_operations

\* C7: best effort. After the join loop of a request every one of its tasks
\* has ended, and every task whose workload did not raise has computed its
\* result, incremented the counter, appended its record and put its result
\* into the request's results, whether or not a sibling raised; and a state
\* with a failed task and a request in flight is never stuck.
C7_SiblingsNotAborted ==
    /\ \A r \in Joined : \A t \in TasksOf(r) :
        /\ pc[t] = "dead"
        /\ ~failed[t] =>
            /\ cpu_result[t] = "value"
            /\ current_count[t] >= 1
            /\ Occurrences(data, Record(t)) = 1
            /\ \E k \in 1..Len(results[r]) : results[r][k].task_id = t[2]
    /\ ((\E t \in Threads : failed[t]) /\ InFlight # {}) => ENABLED Next

\* C7 witness: a request of three tasks has returned its report; one task
\* raised and the other two are in the results.
C7_Witness ==
    \E r \in Runs :
        /\ rpc[r] = "returned"
        /\ items[r] = 3
        /\ Cardinality(TasksOf(r) \cap FailedDead) = 1
        /\ Len(report[r].results) = 2

\* C8 (as claimed): the report of a returned request has one result entry for
\* each submitted task id, also for a task whose workload raised.
C8_FailedTaskHasResultSlot ==
    \A r \in Runs : rpc[r] = "returned" =>
        /\ Len(report[r].results) = items[r]
        /\ \A t \in TasksOf(r) :
            \E k \in 1..Len(report[r].results) :
                report[r].results[k].task_id = t[2]

\* What the order of process_task_threaded allows the step of worker t to do
\* to the shared state.
StepInOrder(t) ==
    \* the token is taken before anything else of the task
    /\ sem' < sem =>
        /\ cpu_result[t] = "none" /\ ~failed[t]
        /\ current_count[t] = 0
        /\ Occurrences(data, Record(t)) = 0
    \* the workload runs with the token held
    /\ (cpu_result'[t] # cpu_result[t] \/ failed'[t] # failed[t]) =>
        /\ t \in TokenHolders
        /\ current_count[t] = 0
    \* the increment comes after the workload, with the token held
    /\ shared_counter' # shared_counter =>
        /\ t \in TokenHolders /\ t \in TokenHolders'
        /\ cpu_result[t] = "value"
        /\ Occurrences(data, Record(t)) = 0
    \* the append comes after the task's increment, with the token held
    /\ (data' # data \/ operation_count' # operation_count) =>
        /\ t \in TokenHolders /\ t \in TokenHolders'
        /\ current_count[t] >= 1
    \* the token goes back only after the append (or after the raise)
    /\ sem' > sem =>
        \/ failed[t]
        \/ /\ Occurrences(data, Record(t)) = 1
           /\ store_lock # t

\* C9: the per-task step order. Every step that changes the semaphore, a
\* task's workload outcome, the counter or the store is the step of exactly
\* one worker, and for that worker: acquire, then workload, then increment,
\* then append, then release, the increment and the append with its token
\* held.
C9_StepOrder ==
    [][
        /\ (sem' # sem \/ shared_counter' # shared_counter \/ data' # data
              \/ operation_count' # operation_count \/ cpu_result' # cpu_result)
            => \E t \in Threads : pc'[t] # pc[t]
        /\ \A t \in Threads : pc'[t] # pc[t] => StepInOrder(t)
    ]_vars

\* C9 witness: a task that went through all five steps has just released its
\* token while a sibling that took its token later is still in its workload.
C9_Witness ==
    \E t, u \in Threads :
        /\ t # u
        /\ pc[t] = "append_result"
        /\ current_count[t] >= 1
        /\ Occurrences(data, Record(t)) = 1
        /\ pc[u] = "work"

\* C10: conservation for a successful request with no other request in flight
\* during it. Its report holds exactly one result for each task id
\* 0..items-1, its shared_counter is the counter at the start plus items, its
\* store_stats are the store's length at the start plus items; and as long as
\* no later request has arrived the counter and the store themselves stand at
\* those values.
C10_Conservation ==
    \A r \in Runs :
        (/\ rpc[r] = "returned"
         /\ ~concurrent[r]
         /\ \A t \in TasksOf(r) : ~failed[t])
        =>
        /\ Len(report[r].results) = items[r]
        /\ \A t \in TasksOf(r) :
            Cardinality({k \in 1..Len(report[r].results) :
                            report[r].results[k].task_id = t[2]}) = 1
        /\ report[r].shared_counter = counter_before[r] + items[r]
        /\ report[r].total_items = len_before[r] + items[r]
        /\ report[r].operations = len_before[r] + items[r]
        /\ (\A q \in Runs : q > r => rpc[q] = "idle") =>
            /\ shared_counter = counter_before[r] + items[r]
            /\ Len(data) = len_before[r] + items[r]

\* C10 witness: the second request, of two tasks, ran alone after the first
\* and returned with both tasks successful, its results not in task order.
C10_Witness ==
    /\ rpc[2] = "returned"
    /\ ~concurrent[2]
    /\ items[2] = 2
    /\ counter_before[2] = 1
    /\ Len(report[2].results) = 2
    /\ report[2].results[1].task_id = 1
    /\ report[2].shared_counter = 3

\* C11: from a fresh process, successful parallel requests run one after
\* another accumulate. When no request is in flight, none overlapped another
\* and no task failed, the counter and the store's length both equal the sum
\* of the item counts of the requests so far, and the report of each request
\* shows the sum up to and including that request.
C11_RunsAccumulate ==
    (/\ InFlight = {}
     /\ \A r \in Runs : ~concurrent[r]
     /\ \A t \in Threads : ~failed[t])
    =>
    /\ shared_counter = SumItems(MaxRuns)
    /\ Len(data) = SumItems(MaxRuns)
    /\ operation_count = SumItems(MaxRuns)
    /\ \A r \in Runs : rpc[r] = "returned" =>
        /\ report[r].shared_counter = SumItems(r)
        /\ report[r].total_items = SumItems(r)

\* C11 witness: a request of two items and then a request of one item have
\* returned, one after the other; counter and store stand at three.
C11_Witness ==
    /\ rpc[1] = "returned" /\ rpc[2] = "returned"
    /\ ~concurrent[1] /\ ~concurrent[2]
    /\ items[1] = 2 /\ items[2] = 1
    /\ shared_counter = 3
    /\ Len(data) = 3
    /\ report[2].total_items = 3

\* ------------------------------------------------------------- fair scheduling
\* The steps of worker thread t.
WorkerStep(t) ==
    \/ AcquireSemaphore(t) \/ GaugeInc(t) \/ Workload(t)
    \/ AcquireDataLock(t) \/ LoadCounter(t) \/ StoreCounter(t)
    \/ ReadCounter(t) \/ ReleaseDataLock(t)
    \/ AcquireStoreLock(t) \/ AppendData(t) \/ LoadOperationCount(t)
    \/ StoreOperationCount(t) \/ ReleaseStoreLock(t)
    \/ GaugeDec(t) \/ ReleaseSemaphore(t) \/ AppendResult(t)

\* The steps of the handler of request r once the request has arrived.
HandlerStep(r) ==
    \/ Launch(r) \/ Join(r) \/ ReportReadCounter(r)
    \/ GetStatsAcquire(r) \/ GetStatsRead(r) \/ GetStatsRelease(r)

\* The operating system runs every thread that can run, and the workload
\* terminates; whether a request arrives is up to the client.
FairSpec ==
    /\ Spec
    /\ \A t \in Threads : WF_vars(WorkerStep(t))
    /\ \A r \in Runs : WF_vars(HandlerStep(r))

\* Worker threads blocked on (or about to try) the admission semaphore.
Waiters == {t \in Threads : pc[t] = "acquire"}

\* C12: under fair scheduling every task blocked on the admission semaphore
\* gets its token, every request that arrived returns, also when the workers
\* of several requests contend for the tokens, and no state with a request in
\* flight is stuck.  A worker leaves the semaphore only by taking a token and
\* a request leaves the requests in flight only by returning, so the two
\* leads-to formulas speak for each waiter and each request.
C12_WaitersAcquireRunsReturn ==
    /\ (Waiters # {}) ~> (Waiters = {})
    /\ (InFlight # {}) ~> (InFlight = {})
    /\ [](InFlight # {} => ENABLED Next)

\* C12 witness: the workers of two overlapping requests hold every token, a
\* third worker is blocked on the semaphore.
C12_Witness ==
    /\ sem = 0
    /\ \E t, u \in TokenHolders : t[1] # u[1]
    /\ \E t \in Threads : pc[t] = "acquire"

\* ------------------------------------------------- the items query parameter
\* items: int = Query(default=5, ge=1, le=20), the same on the three endpoints
items_ge == 1
items_le == 20

\* A validation that forgot the lower bound.
ItemsValid_NoLowerBound(n) == n <= items_le

\* The check FastAPI makes before it calls the handler.
ItemsValid(n) == n >= items_ge /\ n <= items_le

\* The item counts requests are sent with: below the range, small ones in it,
\* above it.
ItemInputs == (0..MaxItems) \cup {items_le + 1}

Endpoints == {"single", "parallel", "async"}

\* Items of the process_single and process_async requests received so far.
RECURSIVE SumSingle(_)
SumSingle(q) == IF q = 0 THEN 0 ELSE s_items[q] + SumSingle(q - 1)
RECURSIVE SumAsync(_)
SumAsync(a) == IF a = 0 THEN 0 ELSE a_items[a] + SumAsync(a - 1)
\* Tasks of all the requests received so far, on the three endpoints.
Requested == SumItems(MaxRuns) + SumSingle(MaxRuns) + SumAsync(MaxRuns)

\* ----------------------------------------------------------- the event loop
\* The coroutines the event loop is in the middle of running: an `async def`
\* handler from its call to its return or its next await, an async_task from
\* its resumption to its return.  process_single and process_parallel have
\* no await: they hold the loop from call to return (join blocks it).
SingleRunning == {q \in Runs : spc[q] \in {"compute", "wait", "append", "count",
                                          "report"}}
AsyncHandlerRunning == {a \in Runs : apc[a] \in {"gather", "report"}}
TaskRunning == {c \in Threads : tpc[c] \in {"compute", "count", "return"}}
LoopBusy ==
    \/ InFlight # {}
    \/ SingleRunning # {}
    \/ AsyncHandlerRunning # {}
    \/ TaskRunning # {}

\* A request with an items value outside the range: FastAPI answers 422 and
\* the handler is not called.  (One such answer per endpoint is modelled.)
Reject(e, n) ==
    /\ ~LoopBusy
    /\ ~ItemsValid(n)
    /\ e \notin rejected
    /\ rejected' = rejected \cup {e}
    /\ UNCHANGED <<shared, pc, locals, rpc, items, idx, results, report,
                   history, singleVars, asyncVars>>

\* A process_parallel request on the event loop: validated, then the handler
\* is called.
ParallelRequest(r, n) ==
    /\ ~LoopBusy
    /\ ItemsValid(n)
    /\ Requested + n <= MaxTasks
    /\ StartRun(r, n)

\* --------------------------------------------------------- process_single
\* A process_single request: validated, then the handler is called:
\* results = [] and the first iteration of `for i in range(items)` begins.
SingleStart(q, n) ==
    /\ ~LoopBusy
    /\ ItemsValid(n)
    /\ Requested + n <= MaxTasks
    /\ spc[q] = "idle"
    /\ q > 1 => spc[q - 1] # "idle"
    /\ spc' = [spc EXCEPT ![q] = "compute"]
    /\ s_items' = [s_items EXCEPT ![q] = n]
    /\ s_i' = [s_i EXCEPT ![q] = 0]
    /\ s_results' = [s_results EXCEPT ![q] = <<>>]
    /\ UNCHANGED <<shared, pc, locals, rpc, items, idx, results, report,
                   history, asyncVars, rejected>>

\* cpu_result = cpu_intensive_task(500000): returns, or raises and the
\* request ends with the exception.
SingleCompute(q) ==
    /\ spc[q] = "compute"
    /\ \E raised \in BOOLEAN :
        spc' = [spc EXCEPT ![q] = IF raised THEN "error" ELSE "wait"]
    /\ UNCHANGED <<shared, pc, locals, rpc, items, idx, results, report,
                   history, s_items, s_i, s_results, asyncVars, rejected>>

\* io_simulation(0.05): time.sleep, with the event loop held
SingleWait(q) ==
    /\ spc[q] = "wait"
    /\ spc' = [spc EXCEPT ![q] = "append"]
    /\ UNCHANGED <<shared, pc, locals, rpc, items, idx, results, report,
                   history, s_items, s_i, s_results, asyncVars, rejected>>

\* The result process_single appends for task i.
SingleResult(i) == [task_id |-> i, processed_by |-> "single_thread"]

\* A handler that puts each new result in front of the earlier ones.
SingleAppend_Prepend(q) ==
    /\ spc[q] = "append"
    /\ spc' = [spc EXCEPT ![q] = "count"]
    /\ s_results' = [s_results EXCEPT ![q] = <<SingleResult(s_i[q])>> \o @]
    /\ UNCHANGED <<shared, pc, locals, rpc, items, idx, results, report,
                   history, s_items, s_i, asyncVars, rejected>>

\* results.append({...})
SingleAppend(q) ==
    /\ spc[q] = "append"
    /\ spc' = [spc EXCEPT ![q] = "count"]
    /\ s_results' = [s_results EXCEPT ![q] = Append(@, SingleResult(s_i[q]))]
    /\ UNCHANGED <<shared, pc, locals, rpc, items, idx, results, report,
                   history, s_items, s_i, asyncVars, rejected>>

\* A handler that counts its tasks in the shared counter.
SingleCount_SharedCounter(q) ==
    /\ spc[q] = "count"
    /\ shared_counter' = shared_counter + 1
    /\ IF s_i[q] + 1 < s_items[q]
       THEN /\ s_i' = [s_i EXCEPT ![q] = @ + 1]
            /\ spc' = [spc EXCEPT ![q] = "compute"]
       ELSE /\ s_i' = s_i
            /\ spc' = [spc EXCEPT ![q] = "report"]
    /\ UNCHANGED <<data_lock, sem, ACTIVE_THREADS, data, operation_count,
                   store_lock, pc, locals, rpc, items, idx, results, report,
                   history, s_items, s_results, asyncVars, rejected>>

\* CPU_INTENSIVE_OPS.inc() and the loop's next iteration, or its end
SingleCount(q) ==
    /\ spc[q] = "count"
    /\ IF s_i[q] + 1 < s_items[q]
       THEN /\ s_i' = [s_i EXCEPT ![q] = @ + 1]
            /\ spc' = [spc EXCEPT ![q] = "compute"]
       ELSE /\ s_i' = s_i
            /\ spc' = [spc EXCEPT ![q] = "report"]
    /\ UNCHANGED <<shared, pc, locals, rpc, items, idx, results, report,
                   history, s_items, s_results, asyncVars, rejected>>

\* return {..., "results": results, ...}
SingleReturn(q) ==
    /\ spc[q] = "report"
    /\ spc' = [spc EXCEPT ![q] = "returned"]
    /\ UNCHANGED <<shared, pc, locals, rpc, items, idx, results, report,
                   history, s_items, s_i, s_results, asyncVars, rejected>>

\* ---------------------------------------------------------- process_async
\* Everything the parallel endpoint and its workers own.
parallelVars == <<shared, pc, locals, rpc, items, idx, results, report, history>>

\* The coroutines async_task(i) of request a.
CoroutinesOf(a) == {c \in Threads : c[1] = a /\ c[2] < a_items[a]}
\* Entries of the event loop's ready queue.
TaskHandle(c) == <<"task", c[1], c[2]>>
HandlerHandle(a) == <<"handler", a, 0>>
\* The handles of the tasks i..n-1 of request a, in that order.
RECURSIVE TaskHandles(_, _, _)
TaskHandles(a, i, n) ==
    IF i >= n THEN <<>> ELSE <<TaskHandle(<<a, i>>)>> \o TaskHandles(a, i + 1, n)

\* A process_async request: validated, then the handler is called and builds
\* tasks = [async_task(i) for i in range(items)]: coroutine objects, not yet
\* running.
AsyncStart(a, n) ==
    /\ ~LoopBusy
    /\ ItemsValid(n)
    /\ Requested + n <= MaxTasks
    /\ apc[a] = "idle"
    /\ a > 1 => apc[a - 1] # "idle"
    /\ apc' = [apc EXCEPT ![a] = "gather"]
    /\ a_items' = [a_items EXCEPT ![a] = n]
    /\ tpc' = [c \in Threads |->
                 IF c[1] = a /\ c[2] < n THEN "created" ELSE tpc[c]]
    /\ UNCHANGED <<parallelVars, singleVars, a_results, gathered, ready,
                   completed, rejected>>

\* results = await asyncio.gather(*tasks): gather wraps each coroutine in a
\* task, which queues its first step, in the order of the arguments; the
\* handler suspends on gather's future.
AsyncGather(a) ==
    /\ apc[a] = "gather"
    /\ apc' = [apc EXCEPT ![a] = "waiting"]
    /\ tpc' = [c \in Threads |-> IF c \in CoroutinesOf(a) THEN "scheduled" ELSE tpc[c]]
    /\ ready' = ready \o TaskHandles(a, 0, a_items[a])
    /\ gathered' = [gathered EXCEPT ![a] = "pending"]
    /\ UNCHANGED <<parallelVars, singleVars, a_items, a_results, completed,
                   rejected>>

\* A task started without a suspension point: it goes straight to its compute
\* step.
TaskStart_NoSuspend(c) ==
    /\ ~LoopBusy
    /\ ready # <<>> /\ Head(ready) = TaskHandle(c)
    /\ tpc[c] = "scheduled"
    /\ tpc' = [tpc EXCEPT ![c] = "compute"]
    /\ ready' = Tail(ready)
    /\ UNCHANGED <<parallelVars, singleVars, apc, a_items, a_results, gathered,
                   completed, rejected>>

\* The loop runs the first step of a task: async_task runs up to
\* `await asyncio.sleep(0.05)`, which sets a timer and suspends the task.
TaskStart(c) ==
    /\ ~LoopBusy
    /\ ready # <<>> /\ Head(ready) = TaskHandle(c)
    /\ tpc[c] = "scheduled"
    /\ tpc' = [tpc EXCEPT ![c] = "sleeping"]
    /\ ready' = Tail(ready)
    /\ UNCHANGED <<parallelVars, singleVars, apc, a_items, a_results, gathered,
                   completed, rejected>>

\* The timer of a sleeping task is due: the loop, when it is idle, queues the
\* step that resumes the task.  Which of several due timers goes first is not
\* fixed (timers with equal deadlines).
TimerFire(c) ==
    /\ ~LoopBusy
    /\ tpc[c] = "sleeping"
    /\ tpc' = [tpc EXCEPT ![c] = "woken"]
    /\ ready' = Append(ready, TaskHandle(c))
    /\ UNCHANGED <<parallelVars, singleVars, apc, a_items, a_results, gathered,
                   completed, rejected>>

\* A resumption that does not wait for the running coroutine to give up the
\* loop.
TaskResume_Preempt(c) ==
    /\ ready # <<>> /\ Head(ready) = TaskHandle(c)
    /\ tpc[c] = "woken"
    /\ tpc' = [tpc EXCEPT ![c] = "compute"]
    /\ ready' = Tail(ready)
    /\ UNCHANGED <<parallelVars, singleVars, apc, a_items, a_results, gathered,
                   completed, rejected>>

\* The loop resumes a task after its sleep.
TaskResume(c) ==
    /\ ~LoopBusy
    /\ ready # <<>> /\ Head(ready) = TaskHandle(c)
    /\ tpc[c] = "woken"
    /\ tpc' = [tpc EXCEPT ![c] = "compute"]
    /\ ready' = Tail(ready)
    /\ UNCHANGED <<parallelVars, singleVars, apc, a_items, a_results, gathered,
                   completed, rejected>>

\* cpu_result = cpu_intensive_task(500000): returns, or raises; the first
\* exception of a task completes gather's future, which wakes the handler.
\* (The callbacks between a task's end and the handler's wake-up are one step.)
TaskCompute(c) ==
    /\ tpc[c] = "compute"
    /\ \E raised \in BOOLEAN :
        IF raised
        THEN /\ tpc' = [tpc EXCEPT ![c] = "raised"]
             /\ IF gathered[c[1]] = "pending"
                THEN /\ gathered' = [gathered EXCEPT ![c[1]] = "exception"]
                     /\ ready' = Append(ready, HandlerHandle(c[1]))
                ELSE UNCHANGED <<gathered, ready>>
        ELSE /\ tpc' = [tpc EXCEPT ![c] = "count"]
             /\ UNCHANGED <<gathered, ready>>
    /\ UNCHANGED <<parallelVars, singleVars, apc, a_items, a_results, completed,
                   rejected>>

\* A task that counts itself in the shared counter.
TaskCount_SharedCounter(c) ==
    /\ tpc[c] = "count"
    /\ tpc' = [tpc EXCEPT ![c] = "return"]
    /\ shared_counter' = shared_counter + 1
    /\ UNCHANGED <<data_lock, sem, ACTIVE_THREADS, data, operation_count,
                   store_lock, pc, locals, rpc, items, idx, results, report,
                   history, singleVars, apc, a_items, a_results, gathered,
                   ready, completed, rejected>>

\* CPU_INTENSIVE_OPS.inc()
TaskCount(c) ==
    /\ tpc[c] = "count"
    /\ tpc' = [tpc EXCEPT ![c] = "return"]
    /\ UNCHANGED <<parallelVars, singleVars, apc, a_items, a_results, gathered,
                   ready, completed, rejected>>

\* return {...}: the task is done; when it is the last of its gather, gather's
\* future gets its result, which wakes the handler.
TaskReturn(c) ==
    /\ tpc[c] = "return"
    /\ tpc' = [tpc EXCEPT ![c] = "done"]
    /\ completed' = [completed EXCEPT ![c[1]] = Append(@, c[2])]
    /\ IF /\ gathered[c[1]] = "pending"
          /\ \A d \in CoroutinesOf(c[1]) \ {c} : tpc[d] = "done"
       THEN /\ gathered' = [gathered EXCEPT ![c[1]] = "result"]
            /\ ready' = Append(ready, HandlerHandle(c[1]))
       ELSE UNCHANGED <<gathered, ready>>
    /\ UNCHANGED <<parallelVars, singleVars, apc, a_items, a_results, rejected>>

\* The dict async_task(i) returns.
AsyncResult(i) == [task_id |-> i, processed_by |-> "async_coroutine"]
\* gather's result: the tasks' results in the order of its arguments.
GatherResults(a) == [k \in 1..a_items[a] |-> AsyncResult(k - 1)]
\* The tasks' results in the order the tasks finished.
CompletionResults(a) == [k \in 1..Len(completed[a]) |-> AsyncResult(completed[a][k])]

\* A handler that collects the results as the tasks finish.
AsyncResume_CompletionOrder(a) ==
    /\ ~LoopBusy
    /\ ready # <<>> /\ Head(ready) = HandlerHandle(a)
    /\ apc[a] = "waiting"
    /\ ready' = Tail(ready)
    /\ IF gathered[a] = "result"
       THEN /\ a_results' = [a_results EXCEPT ![a] = CompletionResults(a)]
            /\ apc' = [apc EXCEPT ![a] = "report"]
       ELSE /\ a_results' = a_results
            /\ apc' = [apc EXCEPT ![a] = "error"]
    /\ UNCHANGED <<parallelVars, singleVars, a_items, tpc, gathered, completed,
                   rejected>>

\* The loop resumes the handler: the await returns gather's list, or raises
\* the task's exception and the request ends with it.
AsyncResume(a) ==
    /\ ~LoopBusy
    /\ ready # <<>> /\ Head(ready) = HandlerHandle(a)
    /\ apc[a] = "waiting"
    /\ ready' = Tail(ready)
    /\ IF gathered[a] = "result"
       THEN /\ a_results' = [a_results EXCEPT ![a] = GatherResults(a)]
            /\ apc' = [apc EXCEPT ![a] = "report"]
       ELSE /\ a_results' = a_results
            /\ apc' = [apc EXCEPT ![a] = "error"]
    /\ UNCHANGED <<parallelVars, singleVars, a_items, tpc, gathered, completed,
                   rejected>>

\* return {..., "results": results, ...}
AsyncReturn(a) ==
    /\ apc[a] = "report"
    /\ apc' = [apc EXCEPT ![a] = "returned"]
    /\ UNCHANGED <<parallelVars, singleVars, a_items, a_results, tpc, gathered,
                   ready, completed, rejected>>

\* ------------------------------------------- the service on its event loop
ServiceNext ==
    \/ \E e \in Endpoints, n \in ItemInputs : Reject(e, n)
    \/ \E r \in Runs, n \in ItemInputs : ParallelRequest(r, n)
    \/ \E r \in Runs : Launch(r)
    \/ \E r \in Runs : Join(r)
    \/ \E r \in Runs : ReportReadCounter(r)
    \/ \E r \in Runs : GetStatsAcquire(r)
    \/ \E r \in Runs : GetStatsRead(r)
    \/ \E r \in Runs : GetStatsRelease(r)
    \/ \E t \in Threads : AcquireSemaphore(t)
    \/ \E t \in Threads : GaugeInc(t)
    \/ \E t \in Threads : Workload(t)
    \/ \E t \in Threads : AcquireDataLock(t)
    \/ \E t \in Threads : LoadCounter(t)
    \/ \E t \in Threads : StoreCounter(t)
    \/ \E t \in Threads : ReadCounter(t)
    \/ \E t \in Threads : ReleaseDataLock(t)
    \/ \E t \in Threads : AcquireStoreLock(t)
    \/ \E t \in Threads : AppendData(t)
    \/ \E t \in Threads : LoadOperationCount(t)
    \/ \E t \in Threads : StoreOperationCount(t)
    \/ \E t \in Threads : ReleaseStoreLock(t)
    \/ \E t \in Threads : GaugeDec(t)
    \/ \E t \in Threads : ReleaseSemaphore(t)
    \/ \E t \in Threads : AppendResult(t)
    \/ \E q \in Runs, n \in ItemInputs : SingleStart(q, n)
    \/ \E q \in Runs : SingleCompute(q)
    \/ \E q \in Runs : SingleWait(q)
    \/ \E q \in Runs : SingleAppend(q)
    \/ \E q \in Runs : SingleCount(q)
    \/ \E q \in Runs : SingleReturn(q)
    \/ \E a \in Runs, n \in ItemInputs : AsyncStart(a, n)
    \/ \E a \in Runs : AsyncGather(a)
    \/ \E c \in Threads : TaskStart(c)
    \/ \E c \in Threads : TimerFire(c)
    \/ \E c \in Threads : TaskResume(c)
    \/ \E c \in Threads : TaskCompute(c)
    \/ \E c \in Threads : TaskCount(c)
    \/ \E c \in Threads : TaskReturn(c)
    \/ \E a \in Runs : AsyncResume(a)
    \/ \E a \in Runs : AsyncReturn(a)

ServiceSpec == Init /\ [][ServiceNext]_vars

\* ------------------------------------------------ claims on the event loop
\* Task ids of a list of results, in the list's order.
TaskIdsOf(rs) == [k \in 1..Len(rs) |-> rs[k].task_id]
\* 0, 1, ..., n-1
SubmissionOrder(n) == [k \in 1..n |-> k - 1]

\* C13: process_single with item count N returns exactly N results whose task
\* ids are 0, 1, ..., N-1 in that order, and task i+1 starts only after task
\* i has finished: while task i is being worked on, the results of exactly
\* the tasks 0..i-1 are in the list.
C13_SequentialOrder ==
    \A q \in Runs :
        /\ spc[q] \in {"compute", "wait", "append"} =>
               TaskIdsOf(s_results[q]) = SubmissionOrder(s_i[q])
        /\ spc[q] = "count" =>
               TaskIdsOf(s_results[q]) = SubmissionOrder(s_i[q] + 1)
        /\ spc[q] \in {"report", "returned"} =>
               TaskIdsOf(s_results[q]) = SubmissionOrder(s_items[q])

\* C13 witness: a sequential run of three items has returned its three results.
C13_Witness ==
    \E q \in Runs :
        /\ spc[q] = "returned"
        /\ s_items[q] = 3
        /\ Len(s_results[q]) = 3
        /\ s_results[q][3].task_id = 2

\* C14: process_async with item count N returns only when its N tasks are
\* done, with exactly N results, no task id twice, and task_id i at position
\* i, whatever the order in which the tasks were resumed and finished.
C14_GatherSubmissionOrder ==
    \A a \in Runs :
        apc[a] \in {"report", "returned"} =>
            /\ \A c \in CoroutinesOf(a) : tpc[c] = "done"
            /\ Len(a_results[a]) = a_items[a]
            /\ \A j, k \in 1..Len(a_results[a]) :
                   a_results[a][j].task_id = a_results[a][k].task_id => j = k
            /\ TaskIdsOf(a_results[a]) = SubmissionOrder(a_items[a])

\* C14 witness: a cooperative run has returned whose tasks finished in another
\* order than they were submitted in.
C14_Witness ==
    \E a \in Runs :
        /\ apc[a] = "returned"
        /\ a_items[a] >= 2
        /\ Len(completed[a]) = a_items[a]
        /\ completed[a] # SubmissionOrder(a_items[a])

\* C15: an item count outside 1..20 is rejected by each of the three
\* endpoints before any work starts: the handlers only ever run with an item
\* count in the range, and the step that rejects a request launches no task,
\* takes no token and leaves the counter, the store and every handler alone.
C15_RejectedBeforeWork ==
    /\ [](\A r \in Runs :
            /\ rpc[r] # "idle" => items[r] \in items_ge..items_le
            /\ spc[r] # "idle" => s_items[r] \in items_ge..items_le
            /\ apc[r] # "idle" => a_items[r] \in items_ge..items_le)
    /\ [][rejected' # rejected =>
            UNCHANGED <<parallelVars, singleVars, asyncVars>>]_vars

\* C15 witness: each of the three endpoints has rejected a request, and a
\* request with a valid item count has been served.
C15_Witness ==
    /\ rejected = Endpoints
    /\ spc[1] = "returned"
    /\ shared_counter = 0
    /\ sem = max_concurrent_operations

\* C16: a sequential run does not touch the shared counter, the store or the
\* semaphore: from the call of process_single to its return no step changes
\* shared_counter, the store's data and operation_count, the token count or
\* a lock, for every N.
C16_SequentialRunFrame ==
    [][(SingleRunning # {} \/ singleVars' # singleVars) =>
          UNCHANGED <<shared_counter, data, operation_count, sem, data_lock,
                      store_lock>>]_vars

\* C16 witness: a sequential run is at its second task, after a parallel run
\* that left the counter and the store at one.
C16_Witness ==
    \E q \in Runs :
        /\ spc[q] = "append"
        /\ s_i[q] = 1
        /\ shared_counter = 1
        /\ Len(data) = 1
        /\ operation_count = 1
        /\ sem = max_concurrent_operations

\* Positions of an async_task after its awaited sleep, up to and after its end.
PastSleep == {"compute", "count", "return", "done", "raised"}

\* C17: in process_async all N tasks are launched before any task runs to
\* completion: a task is past its sleep only when every task of the request
\* has started and reached its sleep; and the handler returns only after all
\* N tasks are done.
C17_LaunchedBeforeCompletion ==
    \A a \in Runs :
        /\ (\E c \in CoroutinesOf(a) : tpc[c] \in PastSleep) =>
               \A d \in CoroutinesOf(a) : tpc[d] \in PastSleep \cup {"sleeping", "woken"}
        /\ apc[a] \in {"report", "returned"} =>
               /\ Len(completed[a]) = a_items[a]
               /\ \A d \in CoroutinesOf(a) : tpc[d] = "done"

\* C17 witness: one task of a cooperative run is done while another is still
\* in its sleep and the handler waits.
C17_Witness ==
    \E a \in Runs : \E c, d \in CoroutinesOf(a) :
        /\ apc[a] = "waiting"
        /\ tpc[c] = "done"
        /\ tpc[d] = "sleeping"

\* C18: in process_async exactly one task runs at a time and control changes
\* hands only at the awaited sleep: at most one coroutine is running, and
\* while a task is between its resumption and its return every step is a
\* step of that task and of no other.
C18_OneTaskAtATime ==
    /\ [](Cardinality(TaskRunning) + Cardinality(AsyncHandlerRunning)
            + Cardinality(SingleRunning) <= 1)
    /\ [][\A c \in TaskRunning :
            /\ tpc'[c] # tpc[c]
            /\ \A d \in Threads \ {c} : tpc'[d] = tpc[d]
            /\ UNCHANGED <<apc, spc, rpc>>]_vars

\* C18 witness: a task is in the middle of its run after the sleep while
\* another task, woken too, is first in the ready queue and waits for it.
C18_Witness ==
    \E c, d \in Threads :
        /\ c # d
        /\ tpc[c] = "count"
        /\ tpc[d] = "woken"
        /\ ready # <<>>
        /\ Head(ready) = TaskHandle(d)

\* ------------------------------------------------------ locking discipline
\* C19: every read and every write of shared_counter is made while holding
\* data_lock: a worker at the load, the store or the read of its increment
\* holds the lock, and so does a handler at the read of shared_counter that
\* builds its report.
C19_CounterAccessUnderLock ==
    /\ \A t \in Threads :
           pc[t] \in {"load_counter", "store_counter", "read_counter"} =>
               data_lock = t
    /\ \A r \in Runs : rpc[r] = "read_counter" => data_lock = Handler(r)

\* Whoever can own a lock: the worker threads and the handlers.
Owners == Threads \cup {Handler(r) : r \in Runs}
\* Positions of a worker that is blocked on the semaphore or in its workload.
BlockingPcs == {"acquire", "gauge_inc", "work"}

\* C20: no lock is held across a blocking wait: a worker that is blocked on
\* the semaphore or executing its compute and wait workload holds neither
\* data_lock nor the store's lock, a handler waiting in join holds neither,
\* and nobody ever holds data_lock and the store's lock at the same time.
C20_NoLockAcrossBlocking ==
    /\ \A t \in Threads :
           pc[t] \in BlockingPcs => data_lock # t /\ store_lock # t
    /\ \A r \in Runs :
           rpc[r] \in {"launch", "join"} =>
               data_lock # Handler(r) /\ store_lock # Handler(r)
    /\ \A o \in Owners : ~(data_lock = o /\ store_lock = o)

\* C20 witness: one worker is in its workload, another is blocked on the
\* semaphore, and a third is inside the store's critical section.
C20_Witness ==
    \E t, u, v \in Threads :
        /\ pc[t] = "work"
        /\ pc[u] = "acquire" /\ sem = 0
        /\ pc[v] = "append_data" /\ store_lock = v
        /\ data_lock = NoOwner

\* ------------------------------------------------------ shared state, frames
\* The worker threads that have written to the results list of request r:
\* each entry was appended by the thread of its task.
ResultWriters(r) == {<<r, results[r][k].task_id>> : k \in 1..Len(results[r])}

\* C21: the counter and the store are the only state the concurrent workers
\* share: no other variable, in particular no request's results list, is
\* written by more than one worker thread.
C21_OnlyCounterAndStoreShared ==
    \A r \in Runs : Cardinality(ResultWriters(r)) <= 1

\* C22: the counter never decreases and the store is append-only: every step
\* leaves shared_counter as it is or larger by one, and leaves data as it is
\* or longer by one record at the end, the earlier records being kept as they
\* are, in their places.
C22_MonotoneCounterAppendOnlyStore ==
    [][/\ shared_counter' \in {shared_counter, shared_counter + 1}
       /\ Len(data') \in {Len(data), Len(data) + 1}
       /\ SubSeq(data', 1, Len(data)) = data]_vars

\* C22 witness: three increments were made and two records appended, by
\* different tasks, and the third task is about to append its own.
C22_Witness ==
    /\ shared_counter = 3
    /\ Len(data) = 2
    /\ data[1] # data[2]
    /\ \E t \in Threads : pc[t] = "append_data" /\ store_lock = t

\* Requests whose report has its shared_counter entry.
CounterReported == {r \in Runs : rpc[r] \in {"get_stats", "stats_read",
                                            "stats_unlock", "returned"}}

\* C23: process_parallel builds its report only after each of its N worker
\* threads has ended: when the report's shared_counter and store_stats are
\* read no task of that run is running or holds a token, and the reported
\* shared_counter is at least every counter_value among the run's results.
C23_ReportAfterJoin ==
    \A r \in Runs :
        /\ r \in Joined =>
               \A t \in TasksOf(r) : pc[t] = "dead" /\ t \notin TokenHolders
        /\ r \in CounterReported =>
               \A k \in 1..Len(results[r]) :
                   report[r].shared_counter >= results[r][k].counter_value

\* C23 witness: a request with two results is reading the store's statistics
\* for its report while a worker of another request still holds a token.
C23_Witness ==
    \E r \in Runs :
        /\ rpc[r] = "stats_read"
        /\ items[r] = 2
        /\ Len(results[r]) = 2
        /\ \E t \in TokenHolders : t[1] # r

\* Positions of a task after its `shared_counter += 1` was stored and before
\* its `self.operation_count += 1` is.
PendingPcs == {"read_counter", "unlock_counter", "lock_store", "append_data",
               "load_opcount", "store_opcount"}
PendingAppend == {t \in Threads : pc[t] \in PendingPcs}

\* C24: the counter and the store stay within K of each other: in every
\* reachable state shared_counter >= operation_count and the difference is at
\* most K, being the number of token-holding tasks that have incremented the
\* counter and not yet completed their append; the two are equal whenever no
\* task is in flight.
C24_CounterStoreWithinK ==
    /\ shared_counter >= operation_count
    /\ shared_counter - operation_count <= max_concurrent_operations
    /\ shared_counter - operation_count = Cardinality(PendingAppend)
    /\ PendingAppend \subseteq TokenHolders
    /\ Running = {} => shared_counter = operation_count

\* C24 witness: the counter is K ahead of operation_count while a further
\* task waits for a token.
C24_Witness ==
    /\ shared_counter - operation_count = max_concurrent_operations
    /\ \E t \in Threads : pc[t] = "acquire"

\* The tasks of request r whose workload raised.
FailedOf(r) == {t \in TasksOf(r) : failed[t]}

\* C25: a task whose workload raises leaves no trace in the shared state: it
\* goes to the finally clause without an increment or an append, so a parallel
\* run of N items of which F fail, with no other request in flight during it,
\* reports the counter and the store both grown by N - F, with total_items
\* equal to operations.
C25_FailedTaskLeavesNoTrace ==
    /\ \A t \in Threads :
           failed[t] =>
               /\ pc[t] \in {"finally", "release", "dead"}
               /\ Occurrences(data, Record(t)) = 0
    /\ \A r \in Runs :
           (rpc[r] = "returned" /\ ~concurrent[r]) =>
               /\ report[r].shared_counter =
                      counter_before[r] + items[r] - Cardinality(FailedOf(r))
               /\ report[r].total_items =
                      len_before[r] + items[r] - Cardinality(FailedOf(r))
               /\ report[r].operations = report[r].total_items
    /\ InFlight = {} =>
           /\ shared_counter = SumItems(MaxRuns) - Cardinality(FailedDead)
           /\ Len(data) = shared_counter
           /\ operation_count = Len(data)

\* C25 witness: a run of three items in which one task failed has returned,
\* reporting the counter and the store at two.
C25_Witness ==
    \E r \in Runs :
        /\ rpc[r] = "returned"
        /\ items[r] = 3
        /\ Cardinality(FailedOf(r)) = 1
        /\ report[r].shared_counter = 2
        /\ report[r].total_items = 2

\* Positions of a worker between ACTIVE_THREADS.inc() and ACTIVE_THREADS.dec().
GaugedPcs == HoldingPcs \ {"gauge_inc", "release"}
Gauged == {t \in Threads : pc[t] \in GaugedPcs}
\* Number of tokens taken from the semaphore.
TokensHeld == max_concurrent_operations - sem

\* C26: the gauge of active workers tracks the token holders: in every
\* reachable state 0 <= ACTIVE_THREADS <= tokens held <= K; it counts the
\* workers that have taken a token and incremented it and have not yet
\* decremented it, which they do before they give the token back, also when
\* the workload raised; and it is 0 whenever no worker is alive.
C26_GaugeTracksTokenHolders ==
    /\ 0 <= ACTIVE_THREADS
    /\ ACTIVE_THREADS <= TokensHeld
    /\ TokensHeld <= max_concurrent_operations
    /\ TokensHeld = Cardinality(TokenHolders)
    /\ ACTIVE_THREADS = Cardinality(Gauged)
    /\ Gauged \subseteq TokenHolders
    /\ Running = {} => ACTIVE_THREADS = 0

\* C26 witness: every token is held, one of them by a failed task that has
\* decremented the gauge and not yet released its token.
C26_Witness ==
    /\ sem = 0
    /\ ACTIVE_THREADS = max_concurrent_operations - 1
    /\ \E t \in Threads : pc[t] = "release" /\ failed[t]

\* C27: a cooperative run does not touch the shared counter, the store or the
\* semaphore: no step of a process_async handler or of one of its tasks
\* changes shared_counter, the store's data and operation_count, the token
\* count or a lock, for every N, also when the tasks of several async runs
\* interleave.
C27_AsyncRunFrame ==
    [][(asyncVars' # asyncVars) =>
          UNCHANGED <<shared_counter, data, operation_count, sem, data_lock,
                      store_lock>>]_vars

\* C27 witness: after a parallel run left the counter and the store at one,
\* two async runs interleave: the task of the first is done while the task
\* of the second computes and both handlers still wait.
C27_Witness ==
    /\ shared_counter = 1
    /\ Len(data) = 1
    /\ sem = max_concurrent_operations
    /\ apc[1] = "waiting" /\ apc[2] = "waiting"
    /\ tpc[<<1, 0>>] = "done"
    /\ tpc[<<2, 0>>] = "compute"
====
